---- MODULE Spec2Model ----
(***************************************************************************)
(* Layer tree and image lifetime model of src/layers.rs.                   *)
(*                                                                         *)
(* Layers live in a heap of managed boxes (@mut).  A layer is named by its *)
(* box id 1..MaxLayers; 0 (None) is Option::None.  The CommonLayer fields  *)
(* of a layer are the functions parent, prev_sibling, next_sibling and     *)
(* transform; first_child and last_child are the ContainerLayer fields.    *)
(* The payload fields of the leaf layers (image, tiles, tiles_across)      *)
(* carry no tree links and are read by neither add_child nor each_child;   *)
(* they are not part of the state.                                         *)
(***************************************************************************)
EXTENDS Integers, Sequences, FiniteSets, TLC

\* ---------------------------------------------------------------- bounds
MaxLayers == 3
MaxStopAt == 2
MaxImages == 3
MaxHandles == 2
MaxDim == 2
MaxDataLen == 2
MaxCalls == 2

MaxVisits == MaxLayers + 2

None == 0
LayerIds == 1..MaxLayers
LayerOpt == 0..MaxLayers
ImageIds == 1..MaxImages
Handles == 1..MaxHandles
Kinds == {"ContainerLayerKind", "ImageLayerKind", "TiledImageLayerKind"}
Matrices == {"identity", "other"}
Formats == {"ARGB32Format", "RGB24Format"}
Bytes == {0, 255}
Sizes == [width : 1..MaxDim, height : 1..MaxDim]
Strides == 1..MaxDim
Buffers == UNION {[1..n -> Bytes] : n \in 0..MaxDataLen}

VARIABLES
    kind,          \* Layer variant of each box, "none" while not constructed
    parent,        \* CommonLayer.parent
    prev_sibling,  \* CommonLayer.prev_sibling
    next_sibling,  \* CommonLayer.next_sibling
    transform,     \* CommonLayer.transform
    first_child,   \* ContainerLayer.first_child
    last_child,    \* ContainerLayer.last_child
    added,         \* history: per container, the children add_child linked, in call order
    failure,       \* the add_child call and the assertion that stopped the task, if any
    pc,            \* position of the each_child call: "idle", "loop", "visitor", "returned"
    it_self,       \* each_child: self
    f,             \* each_child: the visitor
    child_opt,     \* each_child: local child_opt
    visits,        \* history: the arguments of the visitor calls of this each_child, in order
    snapshot,      \* history: added[it_self] when each_child was entered
    img,           \* Image boxes: "none", "live", "dropped"
    texture,       \* Image.texture
    deleted,       \* history: the delete_textures calls, in order
    assigned,      \* history: how often the renderer stored each handle, counted up to 2
    last_set,      \* history: the latest set_transform call
    bd,            \* the BasicImageData box: NoData, or its fields
    bd_args,       \* history: the arguments BasicImageData::new was given
    bd_ret,        \* history: the latest size(), stride() or format() call and its result
    dpc,           \* position of the with_data call: "idle", "with_data", "callback"
    calls,         \* history: the number of with_data calls
    reads          \* history: the byte views the read callback was given, in order

layerVars == <<kind, parent, prev_sibling, next_sibling, transform, first_child, last_child>>
iterVars == <<pc, it_self, f, child_opt, visits, snapshot>>
imageVars == <<img, texture, deleted, assigned>>
dataVars == <<bd, bd_args, bd_ret, dpc, calls, reads>>
vars == <<layerVars, added, failure, iterVars, imageVars, last_set, dataVars>>

Visitors == [stopAt : 0..MaxStopAt, reenter : BOOLEAN]

Constructed == {l \in LayerIds : kind[l] # "none"}
Containers == {l \in LayerIds : kind[l] = "ContainerLayerKind"}

\* No BasicImageData has been constructed; no call has been made.
NoData == [made |-> FALSE]
NoCall == [op |-> "none"]

\* No assertion has failed.
NoFailure == [self |-> None, new_child |-> None, assert |-> "ok"]

\* ------------------------------------------------------------------ Init
Init ==
    /\ kind = [l \in LayerIds |-> "none"]
    /\ parent = [l \in LayerIds |-> None]
    /\ prev_sibling = [l \in LayerIds |-> None]
    /\ next_sibling = [l \in LayerIds |-> None]
    /\ transform = [l \in LayerIds |-> "identity"]
    /\ first_child = [l \in LayerIds |-> None]
    /\ last_child = [l \in LayerIds |-> None]
    /\ added = [l \in LayerIds |-> << >>]
    /\ failure = NoFailure
    /\ pc = "idle"
    /\ it_self = None
    /\ f = [stopAt |-> 0, reenter |-> FALSE]
    /\ child_opt = None
    /\ visits = << >>
    /\ snapshot = << >>
    /\ img = [i \in ImageIds |-> "none"]
    /\ texture = [i \in ImageIds |-> None]
    /\ deleted = << >>
    /\ assigned = [t \in Handles |-> 0]
    /\ last_set = NoCall
    /\ bd = NoData
    /\ bd_args = NoData
    /\ bd_ret = NoCall
    /\ dpc = "idle"
    /\ calls = 0
    /\ reads = << >>

\* ---------------------------------------------------------- constructors
\* The next free box: boxes are allocated in order.
FreshLayer == IF Constructed = LayerIds THEN None
              ELSE CHOOSE l \in LayerIds : kind[l] = "none" /\ \A k \in 1..(l-1) : kind[k] # "none"

\* Mutant: the transform of a new layer is not the identity.
CommonLayer_NotIdentity == [parent |-> None, prev_sibling |-> None, next_sibling |-> None, transform |-> "other"]

\* CommonLayer(): the fields of a new CommonLayer
CommonLayer == [parent |-> None, prev_sibling |-> None, next_sibling |-> None, transform |-> "identity"]

\* The program only runs while the task has not failed.  The caller builds the
\* tree outside each_child; a visitor that re-enters calls add_child.
Running == failure.assert = "ok"
Outside == Running /\ pc \in {"idle", "returned"}
MayLink == Running /\ (pc \in {"idle", "returned"} \/ (pc = "visitor" /\ f.reenter))

\* The frame of each_child: a call that has returned leaves no locals behind.
NoFrame ==
    /\ pc' = "idle"
    /\ it_self' = None
    /\ f' = [stopAt |-> 0, reenter |-> FALSE]
    /\ child_opt' = None
    /\ visits' = << >>
    /\ snapshot' = << >>

Frame == IF pc = "returned" THEN NoFrame ELSE UNCHANGED iterVars

NewLayer(l, k, common) ==
    /\ kind' = [kind EXCEPT ![l] = k]
    /\ parent' = [parent EXCEPT ![l] = common.parent]
    /\ prev_sibling' = [prev_sibling EXCEPT ![l] = common.prev_sibling]
    /\ next_sibling' = [next_sibling EXCEPT ![l] = common.next_sibling]
    /\ transform' = [transform EXCEPT ![l] = common.transform]

ContainerLayer ==
    /\ Outside
    /\ FreshLayer # None
    /\ NewLayer(FreshLayer, "ContainerLayerKind", CommonLayer)
    /\ first_child' = [first_child EXCEPT ![FreshLayer] = None]
    /\ last_child' = [last_child EXCEPT ![FreshLayer] = None]
    /\ Frame
    /\ UNCHANGED <<added, failure, imageVars, last_set, dataVars>>

ImageLayer ==
    /\ Outside
    /\ FreshLayer # None
    /\ NewLayer(FreshLayer, "ImageLayerKind", CommonLayer)
    /\ Frame
    /\ UNCHANGED <<first_child, last_child, added, failure, imageVars, last_set, dataVars>>

TiledImageLayer ==
    /\ Outside
    /\ FreshLayer # None
    /\ NewLayer(FreshLayer, "TiledImageLayerKind", CommonLayer)
    /\ Frame
    /\ UNCHANGED <<first_child, last_child, added, failure, imageVars, last_set, dataVars>>

\* Layer::with_common: the box whose CommonLayer the closure is given
with_common(layer) ==
    CASE kind[layer] = "ContainerLayerKind" -> layer
      [] kind[layer] = "ImageLayerKind" -> layer
      [] kind[layer] = "TiledImageLayerKind" -> layer

\* Mutant: the whole CommonLayer is replaced by a new one with the transform.
set_transform_FreshCommon(layer, new_transform) ==
    /\ Outside
    /\ layer \in Constructed
    /\ transform' = [transform EXCEPT ![with_common(layer)] = new_transform]
    /\ parent' = [parent EXCEPT ![with_common(layer)] = None]
    /\ prev_sibling' = [prev_sibling EXCEPT ![with_common(layer)] = None]
    /\ next_sibling' = [next_sibling EXCEPT ![with_common(layer)] = None]
    /\ last_set' = [op |-> "set_transform", layer |-> layer, matrix |-> new_transform]
    /\ UNCHANGED <<kind, first_child, last_child>>
    /\ Frame
    /\ UNCHANGED <<added, failure, imageVars, dataVars>>

\* CommonLayer::set_transform, reached through with_common
set_transform(layer, new_transform) ==
    /\ Outside
    /\ layer \in Constructed
    /\ transform' = [transform EXCEPT ![with_common(layer)] = new_transform]
    /\ last_set' = [op |-> "set_transform", layer |-> layer, matrix |-> new_transform]
    /\ UNCHANGED <<kind, parent, prev_sibling, next_sibling, first_child, last_child>>
    /\ Frame
    /\ UNCHANGED <<added, failure, imageVars, dataVars>>

\* ------------------------------------------------------------- add_child
\* Mutant: the assertion on next_sibling is missing.
Precondition_NoNextAssert(new_child) ==
    IF parent[with_common(new_child)] # None THEN "parent"
    ELSE IF prev_sibling[with_common(new_child)] # None THEN "prev_sibling"
    ELSE "ok"

\* The three assertions on new_child, in order; "ok" when all pass.
Precondition(new_child) ==
    IF parent[with_common(new_child)] # None THEN "parent"
    ELSE IF prev_sibling[with_common(new_child)] # None THEN "prev_sibling"
    ELSE IF next_sibling[with_common(new_child)] # None THEN "next_sibling"
    ELSE "ok"

\* The assertion on the current first child.
FirstChildAssert(self) ==
    IF first_child[self] # None /\ prev_sibling[with_common(first_child[self])] # None
    THEN "first_child.prev_sibling" ELSE "ok"

\* Mutant: the back link is not written.
LinkPrev_NoBackLink(self, new_child) == prev_sibling

\* first_child_common.prev_sibling = Some(new_child)
LinkPrev(self, new_child) ==
    IF first_child[self] = None THEN prev_sibling
    ELSE [prev_sibling EXCEPT ![with_common(first_child[self])] = new_child]

\* Mutant: the forward link is not written.
LinkNext_NoForwardLink(self, new_child) == next_sibling

\* new_child_common.next_sibling = Some(first_child)
LinkNext(self, new_child) ==
    IF first_child[self] = None THEN next_sibling
    ELSE [next_sibling EXCEPT ![with_common(new_child)] = first_child[self]]

\* Mutant: first_child is written only when the container is empty.
LinkFirst_KeepHead(self, new_child) ==
    IF first_child[self] = None THEN [first_child EXCEPT ![self] = new_child] ELSE first_child

\* self.first_child = Some(new_child)
LinkFirst(self, new_child) == [first_child EXCEPT ![self] = new_child]

\* Mutant: last_child is written by every call.
LinkLast_Always(self, new_child) == [last_child EXCEPT ![self] = new_child]

\* match self.last_child { None => self.last_child = Some(new_child), Some(_) => {} }
LinkLast(self, new_child) ==
    IF last_child[self] = None THEN [last_child EXCEPT ![self] = new_child] ELSE last_child

\* add_child never assigns the parent field.
LinkParent(self, new_child) == parent

add_child(self, new_child) ==
    /\ MayLink
    /\ self \in Containers
    /\ new_child \in Constructed
    /\ IF Precondition(new_child) # "ok"
       THEN /\ failure' = [self |-> self, new_child |-> new_child, assert |-> Precondition(new_child)]
            /\ UNCHANGED <<layerVars, added>>
       ELSE IF FirstChildAssert(self) # "ok"
       THEN /\ failure' = [self |-> self, new_child |-> new_child, assert |-> FirstChildAssert(self)]
            /\ UNCHANGED <<layerVars, added>>
       ELSE /\ prev_sibling' = LinkPrev(self, new_child)
            /\ next_sibling' = LinkNext(self, new_child)
            /\ first_child' = LinkFirst(self, new_child)
            /\ last_child' = LinkLast(self, new_child)
            /\ parent' = LinkParent(self, new_child)
            /\ added' = [added EXCEPT ![self] = Append(@, new_child)]
            /\ UNCHANGED <<kind, transform, failure>>
    /\ Frame
    /\ UNCHANGED <<imageVars, last_set, dataVars>>

\* ------------------------------------------------------------ each_child
\* let mut child_opt = self.first_child;
each_child(self, visit_fn) ==
    /\ Outside
    /\ self \in Containers
    /\ pc' = "loop"
    /\ it_self' = self
    /\ f' = visit_fn
    /\ child_opt' = first_child[self]
    /\ visits' = << >>
    /\ snapshot' = added[self]
    /\ UNCHANGED <<layerVars, added, failure, imageVars, last_set, dataVars>>

\* Mutant: the loop body runs before the test.
LoopCond_Always(c) == TRUE

\* while !child_opt.is_none()
LoopCond(c) == c # None

\* The log keeps the first MaxVisits visitor calls.
Logged(child) == IF Len(visits) < MaxVisits THEN Append(visits, child) ELSE visits

\* The loop test, and the call f(child) when it passes.
each_child_loop ==
    /\ Running
    /\ pc = "loop"
    /\ IF LoopCond(child_opt)
       THEN /\ pc' = "visitor"
            /\ visits' = Logged(child_opt)
       ELSE /\ pc' = "returned"
            /\ UNCHANGED visits
    /\ UNCHANGED <<it_self, f, child_opt, snapshot>>
    /\ UNCHANGED <<layerVars, added, failure, imageVars, last_set, dataVars>>

\* The value the visitor returns from its call number n.
VisitorResult(visit_fn, n) == n # visit_fn.stopAt

\* Mutant: the visitor's result is ignored.
Continues_NoBreak(ret) == TRUE

\* if !f(child) { break; }
Continues(ret) == ret

\* The visitor returns: break, or child_opt = child.with_common(|x| x.next_sibling).
each_child_visited ==
    /\ Running
    /\ pc = "visitor"
    /\ IF Continues(VisitorResult(f, Len(visits)))
       THEN /\ child_opt' = next_sibling[with_common(child_opt)]
            /\ pc' = "loop"
       ELSE /\ pc' = "returned"
            /\ UNCHANGED child_opt
    /\ UNCHANGED <<it_self, f, visits, snapshot>>
    /\ UNCHANGED <<layerVars, added, failure, imageVars, last_set, dataVars>>

\* ----------------------------------------------------------------- Image
FreshImage == IF \A i \in ImageIds : img[i] # "none" THEN None
              ELSE CHOOSE i \in ImageIds : img[i] = "none" /\ \A k \in 1..(i-1) : img[k] # "none"

\* Image::new: Image { data: data, texture: None }
Image_new ==
    /\ FreshImage # None
    /\ img' = [img EXCEPT ![FreshImage] = "live"]
    /\ texture' = [texture EXCEPT ![FreshImage] = None]
    /\ UNCHANGED <<deleted, assigned, layerVars, added, failure, iterVars, last_set, dataVars>>

\* The renderer stores a handle in the public texture field of a live Image.
set_texture(i, t) ==
    /\ img[i] = "live"
    /\ texture' = [texture EXCEPT ![i] = t]
    /\ assigned' = [assigned EXCEPT ![t] = IF @ < 2 THEN @ + 1 ELSE @]
    /\ UNCHANGED <<img, deleted, layerVars, added, failure, iterVars, last_set, dataVars>>

\* Mutant: the destructor releases whatever the texture field holds.
DropCalls_Unconditional(i) == << [image |-> i, texture |-> texture[i]] >>

\* Mutant: the destructor releases the handle on two paths.
DropCalls_Twice(i) ==
    IF texture[i] = None THEN << >>
    ELSE << [image |-> i, texture |-> texture[i]], [image |-> i, texture |-> texture[i]] >>

\* Mutant: the destructor releases nothing.
DropCalls_Leak(i) == << >>

\* The delete_textures calls the destructor of image i makes.
DropCalls(i) ==
    IF texture[i] = None THEN << >> ELSE << [image |-> i, texture |-> texture[i]] >>

\* drop: runs once, when the box of a live Image is freed
Image_drop(i) ==
    /\ img[i] = "live"
    /\ img' = [img EXCEPT ![i] = "dropped"]
    /\ deleted' = deleted \o DropCalls(i)
    /\ UNCHANGED <<texture, assigned, layerVars, added, failure, iterVars, last_set, dataVars>>

\* -------------------------------------------------------- BasicImageData
\* Mutant: the stride field is filled from the width.
BasicImageData_StrideFromWidth(size, stride, format, data) ==
    [made |-> TRUE, size |-> size, stride |-> size.width, format |-> format, data |-> data]

\* BasicImageData::new: the struct the constructor builds
BasicImageData(size, stride, format, data) ==
    [made |-> TRUE, size |-> size, stride |-> stride, format |-> format, data |-> data]

BasicImageData_new(size, stride, format, data) ==
    /\ ~bd.made
    /\ bd' = BasicImageData(size, stride, format, data)
    /\ bd_args' = [made |-> TRUE, size |-> size, stride |-> stride, format |-> format, data |-> data]
    /\ UNCHANGED <<bd_ret, dpc, calls, reads>>
    /\ UNCHANGED <<layerVars, added, failure, iterVars, imageVars, last_set>>

\* fn size(&self), fn stride(&self), fn format(&self)
BasicImageData_size(self) == self.size
BasicImageData_stride(self) == self.stride
BasicImageData_format(self) == self.format

\* The caller, or the read callback, asks for the size, the stride or the format.
MayAsk == bd.made /\ dpc \in {"idle", "callback"}

get_size ==
    /\ MayAsk
    /\ bd_ret' = [op |-> "size", value |-> BasicImageData_size(bd)]
    /\ UNCHANGED <<bd, bd_args, dpc, calls, reads>>
    /\ UNCHANGED <<layerVars, added, failure, iterVars, imageVars, last_set>>

get_stride ==
    /\ MayAsk
    /\ bd_ret' = [op |-> "stride", value |-> BasicImageData_stride(bd)]
    /\ UNCHANGED <<bd, bd_args, dpc, calls, reads>>
    /\ UNCHANGED <<layerVars, added, failure, iterVars, imageVars, last_set>>

get_format ==
    /\ MayAsk
    /\ bd_ret' = [op |-> "format", value |-> BasicImageData_format(bd)]
    /\ UNCHANGED <<bd, bd_args, dpc, calls, reads>>
    /\ UNCHANGED <<layerVars, added, failure, iterVars, imageVars, last_set>>

\* with_data is entered.
with_data ==
    /\ bd.made
    /\ dpc = "idle"
    /\ calls < MaxCalls
    /\ dpc' = "with_data"
    /\ calls' = calls + 1
    /\ UNCHANGED <<bd, bd_args, bd_ret, reads>>
    /\ UNCHANGED <<layerVars, added, failure, iterVars, imageVars, last_set>>

\* Mutant: the body calls the callback twice.
WithDataViews_Twice(self) == << self.data, self.data >>

\* The views the body of with_data hands to f, in order: f(self.data)
WithDataViews(self) == << self.data >>

\* The body of with_data runs: the callback is entered.
with_data_body ==
    /\ dpc = "with_data"
    /\ reads' = reads \o WithDataViews(bd)
    /\ dpc' = "callback"
    /\ UNCHANGED <<bd, bd_args, bd_ret, calls>>
    /\ UNCHANGED <<layerVars, added, failure, iterVars, imageVars, last_set>>

\* The callback returns, and with it with_data.
with_data_return ==
    /\ dpc = "callback"
    /\ dpc' = "idle"
    /\ UNCHANGED <<bd, bd_args, bd_ret, calls, reads>>
    /\ UNCHANGED <<layerVars, added, failure, iterVars, imageVars, last_set>>

\* ------------------------------------------------------- specifications
Next ==
    \/ ContainerLayer
    \/ ImageLayer
    \/ TiledImageLayer
    \/ \E c \in LayerIds, n \in LayerIds : add_child(c, n)
    \/ \E c \in LayerIds, v \in Visitors : each_child(c, v)
    \/ each_child_loop
    \/ each_child_visited

Spec == Init /\ [][Next]_vars

\* A running each_child call keeps running: the loop test and the visitor's
\* return are steps of one sequential call.
FairSpec == Spec /\ WF_vars(each_child_loop) /\ WF_vars(each_child_visited)

NextImage ==
    \/ Image_new
    \/ \E i \in ImageIds, t \in Handles : set_texture(i, t)
    \/ \E i \in ImageIds : Image_drop(i)

SpecImage == Init /\ [][NextImage]_vars

NextData ==
    \/ \E size \in Sizes, stride \in Strides, format \in Formats, data \in Buffers :
          BasicImageData_new(size, stride, format, data)
    \/ get_size
    \/ get_stride
    \/ get_format
    \/ with_data
    \/ with_data_body
    \/ with_data_return

SpecData == Init /\ [][NextData]_vars

\* The tree operations together with set_transform.
NextTransform ==
    \/ ContainerLayer
    \/ ImageLayer
    \/ TiledImageLayer
    \/ \E l \in LayerIds, m \in Matrices : set_transform(l, m)
    \/ \E c \in LayerIds, n \in LayerIds : add_child(c, n)

SpecTransform == Init /\ [][NextTransform]_vars

\* ------------------------------------------------------------- properties
RECURSIVE Reverse(_)
Reverse(s) == IF s = << >> THEN << >> ELSE Append(Reverse(Tail(s)), Head(s))

\* The child list of a container as each_child would walk it, cut after n nodes.
RECURSIVE Walk(_, _)
Walk(l, n) == IF l = None \/ n = 0 THEN << >> ELSE <<l>> \o Walk(next_sibling[l], n - 1)

ChildList(c) == Walk(first_child[c], MaxLayers + 1)

\* A chain of distinct layers has at most MaxLayers nodes.
ChainEnds(c) == Len(ChildList(c)) <= MaxLayers

Count(s, x) == Cardinality({i \in DOMAIN s : s[i] = x})

\* Every add_child call so far was given a layer no earlier call was given.
RECURSIVE Adds(_)
Adds(S) == IF S = {} THEN << >>
           ELSE LET c == CHOOSE x \in S : TRUE IN added[c] \o Adds(S \ {c})

FreshOnly == \A n \in LayerIds : Count(Adds(LayerIds), n) <= 1

\* Every visitor call of the each_child call returned true.
AllTrue == f.stopAt = 0 \/ Len(visits) < f.stopAt

\* C1: when every add_child call was given a fresh layer, an each_child whose
\* visitor always returns true visits exactly the layers added to the container,
\* each once, the last added first.
C1_ReverseInsertionOrder ==
    (pc = "returned" /\ AllTrue /\ FreshOnly) => visits = Reverse(snapshot)

C1_Witness ==
    /\ pc = "returned" /\ AllTrue /\ FreshOnly
    /\ Len(snapshot) >= 2
    /\ visits = Reverse(snapshot)

\* C2: after add_child(n) returns on container c, n.parent is c.
C2_ParentIsContainer ==
    [][\A c \in LayerIds, n \in LayerIds :
          added'[c] = Append(added[c], n) => parent'[n] = c]_vars

\* C3: add_child with a layer that is in some container's child list fails and
\* links nothing, so every layer occurs at most once in all the child lists.
Attached(n) == \E c \in Containers : Count(ChildList(c), n) > 0

RECURSIVE Occurrences(_, _)
Occurrences(S, n) == IF S = {} THEN 0
                     ELSE LET c == CHOOSE x \in S : TRUE
                          IN Count(ChildList(c), n) + Occurrences(S \ {c}, n)

C3_AttachedIsRejected ==
    [][/\ \A c \in LayerIds, n \in LayerIds :
             (added'[c] = Append(added[c], n)) => ~Attached(n)
       /\ \A n \in LayerIds : Occurrences(Containers, n) <= 1]_vars

\* C4: the sibling links mirror each other: a.next_sibling = b exactly when
\* b.prev_sibling = a.
C4_SiblingLinksMirror ==
    \A a \in LayerIds, b \in LayerIds :
        (next_sibling[a] = b) <=> (prev_sibling[b] = a)

C4_Witness ==
    /\ Running
    /\ \E a \in LayerIds, b \in LayerIds, c \in LayerIds :
          /\ Cardinality({a, b, c}) = 3
          /\ next_sibling[a] = b /\ prev_sibling[b] = a
          /\ next_sibling[b] = c /\ prev_sibling[c] = b

\* C5: first_child is empty exactly when last_child is, and otherwise the chain
\* from first_child along next_sibling is finite and ends at last_child.
C5_ChainEndsAtLast ==
    \A c \in Containers :
        /\ (first_child[c] = None) <=> (last_child[c] = None)
        /\ first_child[c] # None =>
              /\ ChainEnds(c)
              /\ ChildList(c)[Len(ChildList(c))] = last_child[c]

\* C6: add_child with a layer whose parent, prev_sibling or next_sibling is set
\* does not link it, and a failing call has written nothing: the fields of all
\* layers and containers are as before the call.
C6_FailsBeforeAnyWrite ==
    [][/\ \A c \in LayerIds, n \in LayerIds :
             (added'[c] = Append(added[c], n)) =>
                 (parent[n] = None /\ prev_sibling[n] = None /\ next_sibling[n] = None)
       /\ \A c \in LayerIds, n \in LayerIds :
             (/\ failure'.self = c /\ failure'.new_child = n /\ failure # failure'
              /\ (parent[n] # None \/ prev_sibling[n] # None \/ next_sibling[n] # None))
             => (failure'.assert \in {"parent", "prev_sibling", "next_sibling"}
                 /\ UNCHANGED <<layerVars, added>>)]_vars

C6_Witness ==
    /\ failure.assert \in {"parent", "prev_sibling", "next_sibling"}
    /\ first_child[failure.self] # None
    /\ \/ prev_sibling[failure.new_child] # None
       \/ next_sibling[failure.new_child] # None

\* C7: each_child with a visitor that always returns true, and does nothing
\* else, returns.
C7_EachChildTerminates ==
    (pc \in {"loop", "visitor"} /\ f = [stopAt |-> 0, reenter |-> FALSE]) ~> (pc = "returned")

\* C8: each_child calls the visitor on no child after the call that returned
\* false; a visitor that returns false on its first call is called exactly once
\* when the container has a child.
C8_StopsAtFirstFalse ==
    /\ f.stopAt > 0 => Len(visits) <= f.stopAt
    /\ (pc = "returned" /\ f.stopAt = 1 /\ snapshot # << >>) => Len(visits) = 1

C8_Witness ==
    /\ pc = "returned" /\ f.stopAt = 1
    /\ Len(snapshot) >= 2
    /\ Len(visits) = 1

\* C9: each_child on a container without children calls the visitor zero times
\* and returns.
C9_EmptyNoVisits ==
    (pc \in {"loop", "visitor", "returned"} /\ snapshot = << >>) =>
        (visits = << >> /\ child_opt = None /\ pc # "visitor")

C9_Witness ==
    /\ pc = "returned" /\ it_self \in Containers
    /\ snapshot = << >> /\ first_child[it_self] = None
    /\ visits = << >>

\* C10: destroying an Image whose texture is T makes exactly one delete_textures
\* call for that Image, and its argument is T.
C10_DropDeletesOnce ==
    \A i \in ImageIds :
        (img[i] = "dropped" /\ texture[i] # None) =>
            /\ Cardinality({k \in DOMAIN deleted : deleted[k].image = i}) = 1
            /\ \A k \in DOMAIN deleted : deleted[k].image = i => deleted[k].texture = texture[i]

C10_Witness ==
    \E i \in ImageIds : img[i] = "dropped" /\ texture[i] # None /\ Len(deleted) >= 1

\* C11: Image::new produces an Image without a texture handle, and destroying
\* an Image without a texture handle makes no delete_textures call.
C11_NoTextureNoDelete ==
    [][\A i \in ImageIds :
          /\ (img[i] = "none" /\ img'[i] = "live") => texture'[i] = None
          /\ (img[i] = "live" /\ img'[i] = "dropped" /\ texture[i] = None) =>
                deleted' = deleted]_vars

C11_Witness ==
    \E i \in ImageIds, j \in ImageIds :
        /\ img[i] = "dropped" /\ texture[i] = None
        /\ img[j] = "dropped" /\ texture[j] # None
        /\ \A k \in DOMAIN deleted : deleted[k].image # i

\* C12 as stated: no two live Images hold the same texture handle, and no
\* handle is passed to delete_textures twice.
LiveHolders(t) == {i \in ImageIds : img[i] = "live" /\ texture[i] = t}
Deletions(t) == {k \in DOMAIN deleted : deleted[k].texture = t}

StoredOnce == \A t \in Handles : assigned[t] <= 1

C13_StoredVerbatim ==
    bd.made =>
        /\ bd_ret.op = "size" => bd_ret.value = bd_args.size
        /\ bd_ret.op = "stride" => bd_ret.value = bd_args.stride
        /\ bd_ret.op = "format" => bd_ret.value = bd_args.format
        /\ \A k \in DOMAIN reads : reads[k] = bd_args.data

C13_Witness ==
    /\ bd.made
    /\ bd_ret.op = "stride" /\ bd_args.stride # bd_args.size.width
    /\ Len(bd_args.data) = 2 /\ bd_args.data[1] # bd_args.data[2]
    /\ Len(reads) = 2 /\ reads[2] = bd_args.data

\* C14: every with_data call has invoked the callback exactly once when it
\* returns, and not before its body runs.
C14_CallbackOncePerCall ==
    /\ dpc = "idle" => Len(reads) = calls
    /\ dpc = "callback" => Len(reads) = calls
    /\ dpc = "with_data" => Len(reads) = calls - 1

C14_Witness == dpc = "idle" /\ calls = 2 /\ Len(reads) = 2

\* C15: every constructor yields a layer without parent and siblings and with
\* the identity transform; a new ContainerLayer has no first and no last child.
C15_CreatedDetached ==
    [][\A l \in LayerIds :
          (kind[l] = "none" /\ kind'[l] # "none") =>
              /\ parent'[l] = None /\ prev_sibling'[l] = None /\ next_sibling'[l] = None
              /\ transform'[l] = "identity"
              /\ kind'[l] = "ContainerLayerKind" =>
                    (first_child'[l] = None /\ last_child'[l] = None)]_vars

C15_Witness ==
    /\ {kind[l] : l \in LayerIds} = Kinds
    /\ \A l \in LayerIds :
          /\ parent[l] = None /\ prev_sibling[l] = None /\ next_sibling[l] = None
          /\ transform[l] = "identity"
          /\ first_child[l] = None /\ last_child[l] = None

\* C16: set_transform replaces the transform of its layer by the given matrix
\* and writes nothing else; the tree links change only in an add_child call.
linkVars == <<parent, prev_sibling, next_sibling, first_child, last_child>>

C16_SetTransformFrame ==
    [][/\ last_set' # last_set =>
             /\ last_set'.op = "set_transform"
             /\ transform' = [transform EXCEPT ![last_set'.layer] = last_set'.matrix]
             /\ UNCHANGED <<kind, linkVars>>
       /\ transform' # transform => last_set' # last_set
       /\ linkVars' # linkVars =>
             \E c \in LayerIds : Len(added'[c]) = Len(added[c]) + 1]_vars

C16_Witness ==
    /\ last_set.op = "set_transform" /\ last_set.matrix = "other"
    /\ transform[last_set.layer] = "other"
    /\ next_sibling[last_set.layer] # None
    /\ \E l \in Constructed : transform[l] = "identity" /\ prev_sibling[l] = last_set.layer

\* C17: a successful add_child(n) on c sets c.first_child to n, the old first
\* child's prev_sibling to n and n.next_sibling to the old first child, sets
\* c.last_child to n only when c was empty, and writes nothing else.
C17_AddChildFrame ==
    [][\A c \in LayerIds, n \in LayerIds :
          (added'[c] = Append(added[c], n)) =>
              LET old == first_child[c] IN
              /\ first_child' = [first_child EXCEPT ![c] = n]
              /\ last_child' = IF old = None THEN [last_child EXCEPT ![c] = n] ELSE last_child
              /\ prev_sibling' = IF old = None THEN prev_sibling
                                 ELSE [prev_sibling EXCEPT ![old] = n]
              /\ next_sibling' = IF old = None THEN next_sibling
                                 ELSE [next_sibling EXCEPT ![n] = old]
              /\ UNCHANGED <<kind, parent, transform>>]_vars

C17_Witness ==
    /\ Running
    /\ \E c \in Containers :
          /\ Len(added[c]) >= 2
          /\ first_child[c] = added[c][Len(added[c])]
          /\ last_child[c] = added[c][1]
          /\ last_child[c] # first_child[c]
          /\ transform[first_child[c]] = "identity"
          /\ transform[last_child[c]] = "other"

\* C18: the assertion on the current first child never fails: every container's
\* first_child has no prev_sibling and its last_child has no next_sibling.
C18_FirstChildAssertHolds ==
    /\ failure.assert # "first_child.prev_sibling"
    /\ \A c \in Containers :
          /\ first_child[c] # None => prev_sibling[first_child[c]] = None
          /\ last_child[c] # None => next_sibling[last_child[c]] = None

\* C19: no container is reachable from itself along first_child and
\* next_sibling.
RECURSIVE Closure(_, _)
Closure(S, n) ==
    IF n = 0 THEN S
    ELSE Closure(S \cup (({first_child[x] : x \in (S \cap Containers)}
                         \cup {next_sibling[x] : x \in S}) \ {None}), n - 1)

Below(c) == Closure({first_child[c]} \ {None}, MaxLayers)

C19_Forest == \A c \in Containers : c \notin Below(c)

\* C20: when the visitor calls add_child with fresh layers, each_child still
\* visits the children the list had at entry, in their order and no others,
\* and returns.
IsPrefix(s, t) == Len(s) <= Len(t) /\ SubSeq(t, 1, Len(s)) = s

C20_ReentrantAddsNotVisited ==
    /\ []((pc # "idle" /\ f.reenter /\ FreshOnly) =>
             /\ IsPrefix(visits, Reverse(snapshot))
             /\ (pc = "returned" /\ AllTrue) => visits = Reverse(snapshot))
    /\ (pc \in {"loop", "visitor"} /\ f.reenter /\ f.stopAt = 0)
          ~> (pc = "returned" \/ ~FreshOnly \/ ~Running)

C20_Witness ==
    /\ pc = "returned" /\ f.reenter /\ AllTrue /\ FreshOnly
    /\ Len(snapshot) >= 2
    /\ Len(added[it_self]) > Len(snapshot)
    /\ visits = Reverse(snapshot)

TypeOK ==
    /\ kind \in [LayerIds -> Kinds \cup {"none"}]
    /\ parent \in [LayerIds -> LayerOpt]
    /\ prev_sibling \in [LayerIds -> LayerOpt]
    /\ next_sibling \in [LayerIds -> LayerOpt]
    /\ transform \in [LayerIds -> Matrices]
    /\ first_child \in [LayerIds -> LayerOpt]
    /\ last_child \in [LayerIds -> LayerOpt]
    /\ pc \in {"idle", "loop", "visitor", "returned"}
    /\ child_opt \in LayerOpt
    /\ img \in [ImageIds -> {"none", "live", "dropped"}]
    /\ texture \in [ImageIds -> {None} \cup Handles]
====
